---- MODULE Spec2Model ----
(***************************************************************************)
(* Model of validate_yolo_labels.py: the YOLO label line validator         *)
(* (validate_yolo_line), the file validator (validate_label_file), the     *)
(* dataset scanner (scan_dataset) and the entry point (main).              *)
(*                                                                         *)
(* Text is modelled as sequences of one-character strings, so that strip,  *)
(* split, int() and float() are computed character by character.  Real     *)
(* numbers are modelled exactly, as integers counting millionths (UNIT);   *)
(* every token the model draws has at most two fractional digits, so the   *)
(* halving of width and height is exact and agrees with the IEEE result    *)
(* on every comparison the code makes.                                     *)
(***************************************************************************)
EXTENDS Integers, Sequences, FiniteSets, TLC

VARIABLES
    (* validate_yolo_line called on its own *)
    line,          \* argument `line`
    line_num,      \* argument `line_num`
    filename,      \* argument `filename`
    returned,      \* <<>> before the call, <<r>> after it, r the returned Optional
    (* validate_label_file called on its own *)
    filepath,      \* the file at the argument `filepath`: [name, status, content]
    file_errors,   \* <<>> before the call, <<errs>> after it, errs the returned list
    (* main / scan_dataset *)
    fs,            \* the dataset on disk (never changes during a run)
    pc,            \* position of main: "start", "scan", "files", "report", "exited"
    split,         \* index into SPLITS of the partition being visited
    txt_files,     \* sorted(labels_dir.glob('*.txt')) of the partition being visited
    file_idx,      \* index into txt_files of the next file to validate
    errors,        \* scan_dataset's local `errors`: findings of the last validated file
    all_errors,    \* scan_dataset's all_errors
    total_files,   \* scan_dataset's total_files
    total_lines,   \* scan_dataset's total_lines
    warnings,      \* partitions reported with "WARNING: Directory not found"
    errors_by_file,\* main's errors_by_file, as the sorted sequence of <<filename, findings>>
    exit_code      \* -1 while running, else the argument of sys.exit

line_vars == <<line, line_num, filename, returned>>
scan_vars == <<fs, pc, split, txt_files, file_idx, errors, all_errors,
               total_files, total_lines, warnings, errors_by_file, exit_code>>
file_vars == <<filepath, file_errors>>
vars == <<line_vars, file_vars, scan_vars>>

-----------------------------------------------------------------------------
(* Bounds *)

MaxTokens == 6      \* most tokens on a line given to validate_yolo_line alone
MaxLineNum == 2     \* largest line number given to validate_yolo_line alone
MaxFiles == 2       \* most directory entries in the whole dataset
MaxLines == 2       \* most lines in the whole dataset
MaxFileLines == 3   \* most pieces of text in a file given to validate_label_file alone

(* Millionths: the resolution of the '.6f' format of the edge messages. *)
UNIT == 1000000

-----------------------------------------------------------------------------
(* Characters and text *)

Digits == <<"0", "1", "2", "3", "4", "5", "6", "7", "8", "9">>

(* Code-point order of the characters used in file names. *)
CharOrder == <<".", "a", "b", "d", "m", "t", "x">>

Whitespace == {" ", "\t", "\n", "\r"}

IsDigit(c) == c \in {"0", "1", "2", "3", "4", "5", "6", "7", "8", "9"}

DigitValue(c) == (CHOOSE i \in 1..10 : Digits[i] = c) - 1

Ord(c) == CHOOSE i \in 1..Len(CharOrder) : CharOrder[i] = c

RECURSIVE LStrip(_)
LStrip(s) ==
    IF s # <<>> /\ Head(s) \in Whitespace THEN LStrip(Tail(s)) ELSE s

RECURSIVE RStrip(_)
RStrip(s) ==
    IF s # <<>> /\ s[Len(s)] \in Whitespace
    THEN RStrip(SubSeq(s, 1, Len(s) - 1))
    ELSE s

(* str.strip() *)
Strip(s) == RStrip(LStrip(s))

(* str.split(): the maximal runs of non-whitespace characters, in order. *)
RECURSIVE SplitFrom(_, _, _)
SplitFrom(s, cur, acc) ==
    IF s = <<>>
    THEN IF cur = <<>> THEN acc ELSE Append(acc, cur)
    ELSE IF Head(s) \in Whitespace
         THEN SplitFrom(Tail(s), <<>>, IF cur = <<>> THEN acc ELSE Append(acc, cur))
         ELSE SplitFrom(Tail(s), Append(cur, Head(s)), acc)

Split(s) == SplitFrom(s, <<>>, <<>>)

RECURSIVE NatDigits(_)
NatDigits(n) ==
    IF n < 10 THEN <<Digits[n + 1]>>
    ELSE NatDigits(n \div 10) \o <<Digits[(n % 10) + 1]>>

(* str(n) of an int *)
IntStr(n) == IF n < 0 THEN <<"-">> \o NatDigits(-n) ELSE NatDigits(n)

RECURSIVE DigitsValue(_, _)
DigitsValue(s, acc) ==
    IF s = <<>> THEN acc
    ELSE DigitsValue(Tail(s), 10 * acc + DigitValue(Head(s)))

AllDigits(s) == \A i \in 1..Len(s) : IsDigit(s[i])

HasSign(tok) == tok # <<>> /\ Head(tok) \in {"+", "-"}

Unsigned(tok) == IF HasSign(tok) THEN Tail(tok) ELSE tok

Negative(tok) == tok # <<>> /\ Head(tok) = "-"

(* int(tok): optional sign, then one or more decimal digits; anything else *)
(* raises ValueError (ok = FALSE).                                         *)
ParseInt(tok) ==
    LET body == Unsigned(tok)
    IN  IF body # <<>> /\ AllDigits(body)
        THEN [ok |-> TRUE,
              value |-> IF Negative(tok) THEN -DigitsValue(body, 0)
                        ELSE DigitsValue(body, 0)]
        ELSE [ok |-> FALSE, value |-> 0]

Pow10(n) == IF n = 0 THEN 1 ELSE IF n = 1 THEN 10 ELSE IF n = 2 THEN 100
            ELSE IF n = 3 THEN 1000 ELSE IF n = 4 THEN 10000
            ELSE IF n = 5 THEN 100000 ELSE UNIT

DotAt(s) == IF \E i \in 1..Len(s) : s[i] = "."
            THEN CHOOSE i \in 1..Len(s) : s[i] = "." /\ \A j \in 1..(i - 1) : s[j] # "."
            ELSE 0

(* float(tok): optional sign, then "nan", "inf", "infinity", or decimal    *)
(* digits with at most one point and at least one digit; anything else     *)
(* raises ValueError (ok = FALSE).  kind is "num", "nan" or "inf"; value is *)
(* the number in millionths (the sign of inf for kind "inf").              *)
ParseFloat(tok) ==
    LET body == Unsigned(tok)
        sgn  == IF Negative(tok) THEN -1 ELSE 1
        dot  == DotAt(body)
        ip   == IF dot = 0 THEN body ELSE SubSeq(body, 1, dot - 1)
        fp   == IF dot = 0 THEN <<>> ELSE SubSeq(body, dot + 1, Len(body))
    IN  IF body = <<"n", "a", "n">>
        THEN [ok |-> TRUE, kind |-> "nan", value |-> 0]
        ELSE IF body = <<"i", "n", "f">>
                \/ body = <<"i", "n", "f", "i", "n", "i", "t", "y">>
        THEN [ok |-> TRUE, kind |-> "inf", value |-> sgn]
        ELSE IF AllDigits(ip) /\ AllDigits(fp) /\ Len(ip) + Len(fp) > 0
                /\ Len(fp) <= 6
        THEN [ok |-> TRUE, kind |-> "num",
              value |-> sgn * (DigitsValue(ip, 0) * UNIT
                               + DigitsValue(fp, 0) * Pow10(6 - Len(fp)))]
        ELSE [ok |-> FALSE, kind |-> "err", value |-> 0]

RECURSIVE PadLeft(_, _)
PadLeft(s, n) == IF Len(s) >= n THEN s ELSE PadLeft(<<"0">> \o s, n)

RECURSIVE DropTrailingZeros(_)
DropTrailingZeros(s) ==
    IF Len(s) > 1 /\ s[Len(s)] = "0"
    THEN DropTrailingZeros(SubSeq(s, 1, Len(s) - 1))
    ELSE s

Abs(v) == IF v < 0 THEN -v ELSE v

(* f"{v:.6f}" of a number given in millionths *)
Format6(v) ==
    (IF v < 0 THEN <<"-">> ELSE <<>>)
    \o NatDigits(Abs(v) \div UNIT) \o <<".">>
    \o PadLeft(NatDigits(Abs(v) % UNIT), 6)

(* f"{v}" (repr) of a float given in millionths: the shortest decimal, with *)
(* at least one fractional digit.                                          *)
FloatStr(v) ==
    (IF v < 0 THEN <<"-">> ELSE <<>>)
    \o NatDigits(Abs(v) \div UNIT) \o <<".">>
    \o DropTrailingZeros(PadLeft(NatDigits(Abs(v) % UNIT), 6))

-----------------------------------------------------------------------------
(* LabelValidationError and validate_yolo_line *)

(* LabelValidationError.__init__: line_content is stored stripped. *)
LabelValidationError(fname, lnum, line_content, reason) ==
    [filename |-> fname, line_num |-> lnum,
     line_content |-> Strip(line_content), reason |-> reason]

(* A reason string: a fixed text, the coordinate it names (if any) and the *)
(* value embedded in it, as text.                                          *)
Reason(msg, field, found) == [msg |-> msg, field |-> field, found |-> found]

COORD_NAMES == <<"center_x", "center_y", "width", "height">>

(* Lines 51-62: class_id must parse as an int and be non-negative. *)
ClassIdCheck(class_id_str) ==
    LET p == ParseInt(class_id_str)
    IN  IF ~p.ok
        THEN <<Reason("class_id must be integer, found: ", "", class_id_str)>>
        ELSE IF p.value < 0
        THEN <<Reason("class_id must be non-negative integer, found: ", "",
                      IntStr(p.value))>>
        ELSE <<>>

(* Lines 65-74: the four float() calls, in order; the first that raises    *)
(* gives the message, which quotes its token.                              *)
CoordParseCheck(strs) ==
    IF \E i \in 1..4 : ~ParseFloat(strs[i]).ok
    THEN LET i == CHOOSE k \in 1..4 :
                      /\ ~ParseFloat(strs[k]).ok
                      /\ \A j \in 1..(k - 1) : ParseFloat(strs[j]).ok
         IN  <<Reason("Invalid numeric value: could not convert string to float: ",
                      "", strs[i])>>
    ELSE <<>>

(* Lines 77-90: the first coordinate that is NaN or infinite, NaN tested   *)
(* before infinity on each.                                                *)
SpecialValueCheck(coords) ==
    IF \E i \in 1..4 : coords[i].kind # "num"
    THEN LET i == CHOOSE k \in 1..4 :
                      /\ coords[k].kind # "num"
                      /\ \A j \in 1..(k - 1) : coords[j].kind = "num"
         IN  IF coords[i].kind = "nan"
             THEN <<Reason(" is NaN", COORD_NAMES[i], <<>>)>>
             ELSE <<Reason(" is Infinity", COORD_NAMES[i], <<>>)>>
    ELSE <<>>

(* Lines 93-103: width > 0, then height > 0. *)
SizeCheck(width, height) ==
    IF width <= 0
    THEN <<Reason("width must be > 0, found: ", "", FloatStr(width))>>
    ELSE IF height <= 0
    THEN <<Reason("height must be > 0, found: ", "", FloatStr(height))>>
    ELSE <<>>

(* Lines 106-116: center_x in [0, 1], then center_y in [0, 1]. *)
CenterCheck(center_x, center_y) ==
    IF center_x < 0 \/ center_x > UNIT
    THEN <<Reason("center_x must be in [0, 1], found: ", "", FloatStr(center_x))>>
    ELSE IF center_y < 0 \/ center_y > UNIT
    THEN <<Reason("center_y must be in [0, 1], found: ", "", FloatStr(center_y))>>
    ELSE <<>>

(* Faulty variant of EdgeCheck: the borders themselves are rejected (<=, >=). *)
EdgeCheckExclusive(center_x, center_y, width, height) ==
    LET x_min == center_x - width \div 2
        x_max == center_x + width \div 2
        y_min == center_y - height \div 2
        y_max == center_y + height \div 2
    IN  IF x_min <= 0
        THEN <<Reason("Bounding box exceeds left edge: x_min=", "", Format6(x_min))>>
        ELSE IF x_max >= UNIT
        THEN <<Reason("Bounding box exceeds right edge: x_max=", "", Format6(x_max))>>
        ELSE IF y_min <= 0
        THEN <<Reason("Bounding box exceeds top edge: y_min=", "", Format6(y_min))>>
        ELSE IF y_max >= UNIT
        THEN <<Reason("Bounding box exceeds bottom edge: y_max=", "", Format6(y_max))>>
        ELSE <<>>

(* Faulty variant of EdgeCheck: the right edge is tested before the left one. *)
EdgeCheckRightFirst(center_x, center_y, width, height) ==
    LET x_min == center_x - width \div 2
        x_max == center_x + width \div 2
        y_min == center_y - height \div 2
        y_max == center_y + height \div 2
    IN  IF x_max > UNIT
        THEN <<Reason("Bounding box exceeds right edge: x_max=", "", Format6(x_max))>>
        ELSE IF x_min < 0
        THEN <<Reason("Bounding box exceeds left edge: x_min=", "", Format6(x_min))>>
        ELSE IF y_min < 0
        THEN <<Reason("Bounding box exceeds top edge: y_min=", "", Format6(y_min))>>
        ELSE IF y_max > UNIT
        THEN <<Reason("Bounding box exceeds bottom edge: y_max=", "", Format6(y_max))>>
        ELSE <<>>

(* Lines 120-147: the four edges, in the order x_min, x_max, y_min, y_max. *)
EdgeCheck(center_x, center_y, width, height) ==
    LET x_min == center_x - width \div 2
        x_max == center_x + width \div 2
        y_min == center_y - height \div 2
        y_max == center_y + height \div 2
    IN  IF x_min < 0
        THEN <<Reason("Bounding box exceeds left edge: x_min=", "", Format6(x_min))>>
        ELSE IF x_max > UNIT
        THEN <<Reason("Bounding box exceeds right edge: x_max=", "", Format6(x_max))>>
        ELSE IF y_min < 0
        THEN <<Reason("Bounding box exceeds top edge: y_min=", "", Format6(y_min))>>
        ELSE IF y_max > UNIT
        THEN <<Reason("Bounding box exceeds bottom edge: y_max=", "", Format6(y_max))>>
        ELSE <<>>

(* Faulty variant of CheckParts: the center is tested before width and height. *)
CheckPartsCenterFirst(parts) ==
    LET strs   == Tail(parts)
        coords == [i \in 1..4 |-> ParseFloat(strs[i])]
        c1 == ClassIdCheck(parts[1])
        c2 == CoordParseCheck(strs)
        c3 == SpecialValueCheck(coords)
        c4 == SizeCheck(coords[3].value, coords[4].value)
        c5 == CenterCheck(coords[1].value, coords[2].value)
    IN  IF c1 # <<>> THEN c1
        ELSE IF c2 # <<>> THEN c2
        ELSE IF c3 # <<>> THEN c3
        ELSE IF c5 # <<>> THEN c5
        ELSE IF c4 # <<>> THEN c4
        ELSE <<>>

(* Lines 46-150: the checks on the five tokens, stopping at the first one  *)
(* that fails.  <<>> when all pass, else <<reason>>.                       *)
CheckParts(parts) ==
    LET strs   == Tail(parts)
        coords == [i \in 1..4 |-> ParseFloat(strs[i])]
        c1 == ClassIdCheck(parts[1])
        c2 == CoordParseCheck(strs)
        c3 == SpecialValueCheck(coords)
        c4 == SizeCheck(coords[3].value, coords[4].value)
        c5 == CenterCheck(coords[1].value, coords[2].value)
        c6 == EdgeCheck(coords[1].value, coords[2].value,
                        coords[3].value, coords[4].value)
    IN  IF c1 # <<>> THEN c1
        ELSE IF c2 # <<>> THEN c2
        ELSE IF c3 # <<>> THEN c3
        ELSE IF c4 # <<>> THEN c4
        ELSE IF c5 # <<>> THEN c5
        ELSE c6

(* validate_yolo_line: <<>> is None, <<e>> the LabelValidationError e. *)
validate_yolo_line(ln, lnum, fname) ==
    LET stripped == Strip(ln)
        parts == Split(stripped)
    IN  IF stripped = <<>> THEN <<>>
        ELSE IF Len(parts) # 5
        THEN <<LabelValidationError(fname, lnum, stripped,
                   Reason("Expected exactly 5 values, found ", "",
                          IntStr(Len(parts))))>>
        ELSE LET r == CheckParts(parts)
             IN  IF r = <<>> THEN <<>>
                 ELSE <<LabelValidationError(fname, lnum, stripped, r[1])>>

-----------------------------------------------------------------------------
(* validate_yolo_line called on its own: the inputs *)

ClassTokens ==
    { <<"0">>, <<"-", "1">>, <<"1", ".", "5">> }

CoordTokens ==
    { <<"0", ".", "5">>, <<"0", ".", "2">>, <<"1", ".", "2">>, <<"0">>, <<"1">>,
      <<"-", "0", ".", "5">>, <<"n", "a", "n">>, <<"-", "i", "n", "f">>,
      <<"a", "b", "c">> }

(* Directory entries: two label files and one file that is not a label file. *)
A_TXT == <<"a", ".", "t", "x", "t">>
AB_TXT == <<"a", "b", ".", "t", "x", "t">>
B_MD == <<"b", ".", "m", "d">>

EntryNames == {A_TXT, AB_TXT, B_MD}

FileNames == {A_TXT, AB_TXT}

(* How a line is laid out around its tokens: leading, separating, trailing. *)
Layouts ==
    { [lead |-> <<>>, sep |-> <<" ">>, trail |-> <<>>],
      [lead |-> <<" ", "\t">>, sep |-> <<"\t", " ">>, trail |-> <<" ", "\r", "\n">>] }

RECURSIVE Join(_, _)
Join(toks, sep) ==
    IF toks = <<>> THEN <<>>
    ELSE IF Len(toks) = 1 THEN toks[1]
    ELSE toks[1] \o sep \o Join(Tail(toks), sep)

MakeLine(layout, toks) == layout.lead \o Join(toks, layout.sep) \o layout.trail

(* n tokens: a class token, then coordinate tokens; past the fifth token   *)
(* the last coordinate token repeats.                                      *)
TokensOf(n, c, t) ==
    [i \in 1..n |-> IF i = 1 THEN c ELSE t[IF i > 5 THEN 4 ELSE i - 1]]

(* Up to five tokens: every choice of coordinate tokens.  More than five:  *)
(* one coordinate token, repeated.                                         *)
LineInit ==
    /\ \E n \in 0..MaxTokens, c \in ClassTokens, t \in [1..4 -> CoordTokens],
          layout \in Layouts :
            /\ n > 5 => \A i \in 1..4 : t[i] = t[1]
            /\ line = MakeLine(layout, TokensOf(n, c, t))
    /\ line_num = 0
    /\ filename = <<>>
    /\ returned = <<>>


-----------------------------------------------------------------------------
(* Files and validate_label_file *)

(* f.readlines() in text mode: the text cut after every line terminator;   *)
(* universal newlines turn "\r\n" and a lone "\r" into "\n".               *)
RECURSIVE ReadLinesFrom(_, _, _)
ReadLinesFrom(s, cur, acc) ==
    IF s = <<>>
    THEN IF cur = <<>> THEN acc ELSE Append(acc, cur)
    ELSE IF Head(s) = "\r" /\ Len(s) > 1 /\ s[2] = "\n"
    THEN ReadLinesFrom(Tail(Tail(s)), <<>>, Append(acc, Append(cur, "\n")))
    ELSE IF Head(s) \in {"\r", "\n"}
    THEN ReadLinesFrom(Tail(s), <<>>, Append(acc, Append(cur, "\n")))
    ELSE ReadLinesFrom(Tail(s), Append(cur, Head(s)), acc)

ReadLines(content) == ReadLinesFrom(content, <<>>, <<>>)

(* Faulty variant of ValidateLines: only the non-blank lines are numbered. *)
RECURSIVE ValidateLinesSkippingBlank(_, _, _, _)
ValidateLinesSkippingBlank(lines, i, fname, acc) ==
    IF i > Len(lines) THEN acc
    ELSE ValidateLinesSkippingBlank(lines, i + 1, fname,
             acc \o validate_yolo_line(lines[i],
                        Cardinality({j \in 1..i : Strip(lines[j]) # <<>>}), fname))

(* Faulty variant of ValidateLines: enumerate() without start=1, numbers from 0. *)
RECURSIVE ValidateLinesFromZero(_, _, _, _)
ValidateLinesFromZero(lines, i, fname, acc) ==
    IF i > Len(lines) THEN acc
    ELSE ValidateLinesFromZero(lines, i + 1, fname,
             acc \o validate_yolo_line(lines[i], i - 1, fname))

(* Lines 171-174: the loop over enumerate(lines, start=1), from position i. *)
RECURSIVE ValidateLines(_, _, _, _)
ValidateLines(lines, i, fname, acc) ==
    IF i > Len(lines) THEN acc
    ELSE ValidateLines(lines, i + 1, fname,
                       acc \o validate_yolo_line(lines[i], i, fname))

(* validate_label_file(filepath): file is what is on disk at filepath, a   *)
(* record [name, status, content].  status "unreadable": open() raises;    *)
(* "undecodable": the bytes after content are not UTF-8, readlines()       *)
(* raises; "ok": content is the whole text.                                *)
validate_label_file(file) ==
    IF file.status = "unreadable"
    THEN <<LabelValidationError(file.name, 0, <<>>,
                                Reason("File read error: ", "", <<>>))>>
    ELSE IF file.status = "undecodable"
    THEN <<LabelValidationError(file.name, 0, <<>>,
                                Reason("File encoding error: not valid UTF-8", "", <<>>))>>
    ELSE ValidateLines(ReadLines(file.content), 1, file.name, <<>>)

(* Faulty variant of CountLines: the lines read before the decoding error count. *)
CountLinesIgnoringFailure(file) ==
    IF file.status = "unreadable" THEN 0
    ELSE LET lines == ReadLines(file.content)
         IN  Cardinality({i \in 1..Len(lines) : Strip(lines[i]) # <<>>})

(* Lines 222-227: the number of non-blank lines, 0 when reading raises. *)
CountLines(file) ==
    IF file.status # "ok" THEN 0
    ELSE LET lines == ReadLines(file.content)
         IN  Cardinality({i \in 1..Len(lines) : Strip(lines[i]) # <<>>})

-----------------------------------------------------------------------------
(* scan_dataset and main *)

SPLITS == <<"train", "val">>

EndsWith(s, suffix) ==
    /\ Len(s) >= Len(suffix)
    /\ SubSeq(s, Len(s) - Len(suffix) + 1, Len(s)) = suffix

(* The pattern '*.txt' *)
MatchesTxt(name) == EndsWith(name, <<".", "t", "x", "t">>)

RECURSIVE LexLess(_, _)
LexLess(a, b) ==
    IF b = <<>> THEN FALSE
    ELSE IF a = <<>> THEN TRUE
    ELSE IF Head(a) # Head(b) THEN Ord(Head(a)) < Ord(Head(b))
    ELSE LexLess(Tail(a), Tail(b))

RECURSIVE SortNames(_)
SortNames(S) ==
    IF S = {} THEN <<>>
    ELSE LET m == CHOOSE x \in S : \A y \in S \ {x} : LexLess(x, y)
         IN  <<m>> \o SortNames(S \ {m})

(* sorted(labels_dir.glob('*.txt')), as names *)
SortedTxtFiles(dir) == SortNames({e.name : e \in {x \in dir.entries : MatchesTxt(x.name)}})

FileAt(dir, name) == CHOOSE e \in dir.entries : e.name = name

(* Faulty variant of GroupByFile: a finding is put at the front of its group. *)
RECURSIVE GroupByFilePrepend(_, _)
GroupByFilePrepend(errs, groups) ==
    IF errs = <<>> THEN groups
    ELSE LET e == Head(errs)
         IN  GroupByFilePrepend(Tail(errs),
                 IF e.filename \in DOMAIN groups
                 THEN [groups EXCEPT ![e.filename] = <<e>> \o @]
                 ELSE [k \in DOMAIN groups \cup {e.filename} |->
                          IF k = e.filename THEN <<e>> ELSE groups[k]])

(* Lines 274-278 and the sorted() of line 281: the findings grouped by     *)
(* file name, each group in the order of `errs`, the groups by name.       *)
RECURSIVE GroupByFile(_, _)
GroupByFile(errs, groups) ==
    IF errs = <<>> THEN groups
    ELSE LET e == Head(errs)
         IN  GroupByFile(Tail(errs),
                 IF e.filename \in DOMAIN groups
                 THEN [groups EXCEPT ![e.filename] = Append(@, e)]
                 ELSE [k \in DOMAIN groups \cup {e.filename} |->
                          IF k = e.filename THEN <<e>> ELSE groups[k]])

EmptyGroups == [k \in {} |-> <<>>]

SortedGroups(errs) ==
    LET g == GroupByFile(errs, EmptyGroups)
        keys == SortNames(DOMAIN g)
    IN  [i \in 1..Len(keys) |-> [filename |-> keys[i], file_errors |-> g[keys[i]]]]

(* main, lines 232-236: the dataset root does not exist. *)
RootMissing ==
    /\ pc = "start"
    /\ ~fs.root
    /\ exit_code' = 1
    /\ pc' = "exited"
    /\ UNCHANGED <<fs, split, txt_files, file_idx, errors, all_errors, total_files,
                   total_lines, warnings, errors_by_file, line_vars, file_vars>>

(* main, lines 234-245: the root exists, scan_dataset starts. *)
RootFound ==
    /\ pc = "start"
    /\ fs.root
    /\ pc' = "scan"
    /\ split' = 1
    /\ UNCHANGED <<fs, txt_files, file_idx, errors, all_errors, total_files,
                   total_lines, warnings, errors_by_file, exit_code, line_vars, file_vars>>

(* Faulty variant of DirMissing: the loop over the partitions is left (break). *)
DirMissingBreaks ==
    /\ pc = "scan"
    /\ split <= Len(SPLITS)
    /\ ~fs.dirs[split].exists
    /\ warnings' = Append(warnings, SPLITS[split])
    /\ split' = Len(SPLITS) + 1
    /\ UNCHANGED <<fs, pc, txt_files, file_idx, errors, all_errors, total_files,
                   total_lines, errors_by_file, exit_code, line_vars, file_vars>>

(* Lines 199-201: the partition directory is absent. *)
DirMissing ==
    /\ pc = "scan"
    /\ split <= Len(SPLITS)
    /\ ~fs.dirs[split].exists
    /\ warnings' = Append(warnings, SPLITS[split])
    /\ split' = split + 1
    /\ UNCHANGED <<fs, pc, txt_files, file_idx, errors, all_errors, total_files,
                   total_lines, errors_by_file, exit_code, line_vars, file_vars>>

(* Lines 206-210: the partition holds no .txt file. *)
DirEmpty ==
    /\ pc = "scan"
    /\ split <= Len(SPLITS)
    /\ fs.dirs[split].exists
    /\ SortedTxtFiles(fs.dirs[split]) = <<>>
    /\ txt_files' = <<>>
    /\ split' = split + 1
    /\ UNCHANGED <<fs, pc, file_idx, errors, all_errors, total_files,
                   total_lines, warnings, errors_by_file, exit_code, line_vars, file_vars>>

(* Lines 206-212: the partition's .txt files are listed. *)
DirFound ==
    /\ pc = "scan"
    /\ split <= Len(SPLITS)
    /\ fs.dirs[split].exists
    /\ SortedTxtFiles(fs.dirs[split]) # <<>>
    /\ txt_files' = SortedTxtFiles(fs.dirs[split])
    /\ file_idx' = 1
    /\ pc' = "files"
    /\ UNCHANGED <<fs, split, errors, all_errors, total_files,
                   total_lines, warnings, errors_by_file, exit_code, line_vars, file_vars>>

(* Faulty variant of ValidateFile: a file-level finding ends the partition's loop. *)
ValidateFileStopOnFailure ==
    /\ pc = "files"
    /\ LET txt_file == FileAt(fs.dirs[split], txt_files[file_idx])
           errs == validate_label_file(txt_file)
       IN  /\ total_files' = total_files + 1
           /\ errors' = errs
           /\ all_errors' = all_errors \o errs
           /\ total_lines' = total_lines + CountLines(txt_file)
           /\ IF file_idx < Len(txt_files) /\ txt_file.status = "ok"
              THEN file_idx' = file_idx + 1 /\ UNCHANGED <<pc, split>>
              ELSE file_idx' = 0 /\ pc' = "scan" /\ split' = split + 1
    /\ UNCHANGED <<fs, txt_files, warnings, errors_by_file, exit_code, line_vars, file_vars>>

(* Lines 214-227: one iteration of the loop over txt_files. *)
ValidateFile ==
    /\ pc = "files"
    /\ LET txt_file == FileAt(fs.dirs[split], txt_files[file_idx])
           errs == validate_label_file(txt_file)
       IN  /\ total_files' = total_files + 1
           /\ errors' = errs
           /\ all_errors' = all_errors \o errs
           /\ total_lines' = total_lines + CountLines(txt_file)
    /\ IF file_idx < Len(txt_files)
       THEN file_idx' = file_idx + 1 /\ UNCHANGED <<pc, split>>
       ELSE file_idx' = 0 /\ pc' = "scan" /\ split' = split + 1
    /\ UNCHANGED <<fs, txt_files, warnings, errors_by_file, exit_code, line_vars, file_vars>>

(* Faulty variant of Report: the number of findings is the exit code. *)
ReportExitCount ==
    /\ pc = "scan"
    /\ split > Len(SPLITS)
    /\ errors_by_file' = IF all_errors = <<>> THEN <<>> ELSE SortedGroups(all_errors)
    /\ exit_code' = Len(all_errors)
    /\ pc' = "exited"
    /\ UNCHANGED <<fs, split, txt_files, file_idx, errors, all_errors, total_files,
                   total_lines, warnings, line_vars, file_vars>>

(* main, lines 245-315: scan_dataset has returned; report and exit. *)
Report ==
    /\ pc = "scan"
    /\ split > Len(SPLITS)
    /\ errors_by_file' = IF all_errors = <<>> THEN <<>> ELSE SortedGroups(all_errors)
    /\ exit_code' = IF all_errors # <<>> THEN 1 ELSE 0
    /\ pc' = "exited"
    /\ UNCHANGED <<fs, split, txt_files, file_idx, errors, all_errors, total_files,
                   total_lines, warnings, line_vars, file_vars>>

Next ==
    \/ RootMissing
    \/ RootFound
    \/ DirMissing
    \/ DirEmpty
    \/ DirFound
    \/ ValidateFile
    \/ Report

-----------------------------------------------------------------------------
(* The datasets a run may find on disk *)

T_0 == <<"0">>
T_05 == <<"0", ".", "5">>
T_02 == <<"0", ".", "2">>
T_12 == <<"1", ".", "2">>

(* The lines files are made of: a whitespace-only line, a valid line and a *)
(* line whose box leaves the image (indented, ending in "\r\n").           *)
BLANK_LINE == <<" ", "\n">>
VALID_LINE == <<"0", " ", "0", ".", "5", " ", "0", ".", "5", " ",
                "0", ".", "2", " ", "0", ".", "2", "\n">>
INVALID_LINE == <<" ", "0", " ", "0", ".", "5", " ", "0", ".", "5", " ",
                  "1", ".", "2", " ", "0", ".", "2", "\r", "\n">>

LineKinds == {BLANK_LINE, VALID_LINE, INVALID_LINE}

(* Every place a directory entry can be, <<partition, name>>: train holds  *)
(* any of the three entries, val at most a.txt.                            *)
Slots == << <<1, A_TXT>>, <<1, AB_TXT>>, <<1, B_MD>>, <<2, A_TXT>> >>

(* What a slot holds: nothing, or a file of a status and a number of lines. *)
(* A file that is not a label file is never opened: it is left empty.      *)
Shapes(name, lines) ==
    IF MatchesTxt(name)
    THEN {[status |-> "none", len |-> 0], [status |-> "unreadable", len |-> 0]}
         \cup {[status |-> st, len |-> n] : st \in {"ok", "undecodable"}, n \in 0..lines}
    ELSE {[status |-> "none", len |-> 0], [status |-> "ok", len |-> 0]}

Used(shape) == IF shape.status = "none" THEN 0 ELSE 1

(* The ways to fill the slots from the k-th on with at most `files` files   *)
(* holding at most `lines` lines together.                                 *)
RECURSIVE Fillings(_, _, _)
Fillings(k, files, lines) ==
    IF k > Len(Slots) THEN {<<>>}
    ELSE UNION { { <<sh>> \o rest : rest \in Fillings(k + 1, files - Used(sh), lines - sh.len) }
                 : sh \in {x \in Shapes(Slots[k][2], lines) : Used(x) <= files} }

RECURSIVE SumLen(_)
SumLen(filling) == IF filling = <<>> THEN 0 ELSE Head(filling).len + SumLen(Tail(filling))

RECURSIVE Concat(_)
Concat(seqs) == IF seqs = <<>> THEN <<>> ELSE Head(seqs) \o Concat(Tail(seqs))

(* The text of slot k: its share of the chosen lines, in order. *)
ContentOf(filling, chosen, k) ==
    LET before == SumLen(SubSeq(filling, 1, k - 1))
    IN  Concat(SubSeq(chosen, before + 1, before + filling[k].len))

DirOf(filling, chosen, s, present) ==
    [exists |-> present,
     entries |-> { [name |-> Slots[k][2], status |-> filling[k].status,
                    content |-> ContentOf(filling, chosen, k)]
                   : k \in {j \in 1..Len(Slots) :
                               Slots[j][1] = s /\ filling[j].status # "none"} }]

NoDataset ==
    [root |-> FALSE, dirs |-> [s \in 1..2 |-> [exists |-> FALSE, entries |-> {}]]]

(* A missing root holds nothing.  Under an existing root each partition is *)
(* absent or present, and a partition that holds files is present.         *)
DatasetInit ==
    \/ fs = NoDataset
    \/ \E filling \in Fillings(1, MaxFiles, MaxLines) :
         \E chosen \in [1..SumLen(filling) -> LineKinds] :
           \E present \in [1..2 -> BOOLEAN] :
              /\ \A k \in 1..Len(Slots) :
                    filling[k].status # "none" => present[Slots[k][1]]
              /\ fs = [root |-> TRUE,
                       dirs |-> [s \in 1..2 |-> DirOf(filling, chosen, s, present[s])]]

NoFile == [name |-> <<>>, status |-> "none", content |-> <<>>]

FileIdle ==
    /\ filepath = NoFile
    /\ file_errors = <<>>

LineIdle ==
    /\ line = <<>>
    /\ line_num = 0
    /\ filename = <<>>
    /\ returned = <<>>

Init ==
    /\ DatasetInit
    /\ pc = "start"
    /\ split = 0
    /\ txt_files = <<>>
    /\ file_idx = 0
    /\ errors = <<>>
    /\ all_errors = <<>>
    /\ total_files = 0
    /\ total_lines = 0
    /\ warnings = <<>>
    /\ errors_by_file = <<>>
    /\ exit_code = -1
    /\ LineIdle
    /\ FileIdle

Spec == Init /\ [][Next]_vars

ScanIdle ==
    /\ fs = NoDataset
    /\ pc = "idle"
    /\ split = 0
    /\ txt_files = <<>>
    /\ file_idx = 0
    /\ errors = <<>>
    /\ all_errors = <<>>
    /\ total_files = 0
    /\ total_lines = 0
    /\ warnings = <<>>
    /\ errors_by_file = <<>>
    /\ exit_code = -1

(* One call validate_yolo_line(line, line_num, filename). *)
CallValidateLine ==
    /\ returned = <<>>
    /\ \E n \in {1, MaxLineNum}, f \in FileNames :
          /\ line_num' = n
          /\ filename' = f
          /\ returned' = <<validate_yolo_line(line, n, f)>>
    /\ UNCHANGED <<line, file_vars, scan_vars>>

InitLine == LineInit /\ FileIdle /\ ScanIdle

SpecLine == InitLine /\ [][CallValidateLine]_vars

-----------------------------------------------------------------------------
(* validate_label_file called on its own: the inputs *)

(* A piece of text with no line terminator: it runs into what follows. *)
FRAGMENT == <<"1", " ">>

(* A line ended by a lone "\r", with a negative class id. *)
CR_LINE == <<"-", "1", " ", "0", ".", "5", " ", "0", ".", "5", " ",
             "0", ".", "2", " ", "0", ".", "2", "\r">>

FilePieces == LineKinds \cup {FRAGMENT, CR_LINE}

FileInit ==
    /\ \E name \in FileNames :
          \/ filepath = [name |-> name, status |-> "unreadable", content |-> <<>>]
          \/ \E st \in {"ok", "undecodable"}, n \in 0..MaxFileLines :
                \E pieces \in [1..n -> FilePieces] :
                   filepath = [name |-> name, status |-> st, content |-> Concat(pieces)]
    /\ file_errors = <<>>

(* One call validate_label_file(filepath). *)
CallValidateFile ==
    /\ file_errors = <<>>
    /\ file_errors' = <<validate_label_file(filepath)>>
    /\ UNCHANGED <<filepath, line_vars, scan_vars>>

InitFile == FileInit /\ LineIdle /\ ScanIdle

SpecFile == InitFile /\ [][CallValidateFile]_vars

-----------------------------------------------------------------------------
(* The rules of the label format, stated on the tokens of a line           *)

Called == returned # <<>>

(* The Optional returned by the call: <<>> or <<finding>>. *)
Result == returned[1]

TokensOfLine(ln) == Split(Strip(ln))

IsNum(tok) == ParseFloat(tok).ok /\ ParseFloat(tok).kind = "num"

NumOf(tok) == ParseFloat(tok).value

IsSpecial(tok) == ParseFloat(tok).ok /\ ParseFloat(tok).kind \in {"nan", "inf"}

(* Rule r is violated by the tokens p.  A rule on values is violated only  *)
(* when the tokens it reads are numbers; the edges are compared doubled,   *)
(* so that no halving is needed.                                           *)
RuleViolated(r, p) ==
    IF r = 1 THEN Len(p) # 5
    ELSE /\ Len(p) = 5
         /\ CASE r = 2  -> ~ParseInt(p[1]).ok \/ ParseInt(p[1]).value < 0
              [] r = 3  -> \E i \in 2..5 : ~ParseFloat(p[i]).ok
              [] r = 4  -> \E i \in 2..5 : IsSpecial(p[i])
              [] r = 5  -> IsNum(p[4]) /\ NumOf(p[4]) <= 0
              [] r = 6  -> IsNum(p[5]) /\ NumOf(p[5]) <= 0
              [] r = 7  -> IsNum(p[2]) /\ (NumOf(p[2]) < 0 \/ NumOf(p[2]) > UNIT)
              [] r = 8  -> IsNum(p[3]) /\ (NumOf(p[3]) < 0 \/ NumOf(p[3]) > UNIT)
              [] r = 9  -> IsNum(p[2]) /\ IsNum(p[4]) /\ 2 * NumOf(p[2]) - NumOf(p[4]) < 0
              [] r = 10 -> IsNum(p[2]) /\ IsNum(p[4])
                           /\ 2 * NumOf(p[2]) + NumOf(p[4]) > 2 * UNIT
              [] r = 11 -> IsNum(p[3]) /\ IsNum(p[5]) /\ 2 * NumOf(p[3]) - NumOf(p[5]) < 0
              [] r = 12 -> IsNum(p[3]) /\ IsNum(p[5])
                           /\ 2 * NumOf(p[3]) + NumOf(p[5]) > 2 * UNIT

Rules == 1..12

(* The first rule from r on that p violates; 13 when there is none. *)
RECURSIVE FirstViolatedFrom(_, _)
FirstViolatedFrom(r, p) ==
    IF r \notin Rules THEN 13
    ELSE IF RuleViolated(r, p) THEN r
    ELSE FirstViolatedFrom(r + 1, p)

FirstViolated(p) == FirstViolatedFrom(1, p)

SomeRuleViolated(p) == FirstViolated(p) \in Rules

(* The texts a finding of rule r may carry. *)
RuleMessages(r) ==
    CASE r = 1  -> {"Expected exactly 5 values, found "}
      [] r = 2  -> {"class_id must be integer, found: ",
                    "class_id must be non-negative integer, found: "}
      [] r = 3  -> {"Invalid numeric value: could not convert string to float: "}
      [] r = 4  -> {" is NaN", " is Infinity"}
      [] r = 5  -> {"width must be > 0, found: "}
      [] r = 6  -> {"height must be > 0, found: "}
      [] r = 7  -> {"center_x must be in [0, 1], found: "}
      [] r = 8  -> {"center_y must be in [0, 1], found: "}
      [] r = 9  -> {"Bounding box exceeds left edge: x_min="}
      [] r = 10 -> {"Bounding box exceeds right edge: x_max="}
      [] r = 11 -> {"Bounding box exceeds top edge: y_min="}
      [] r = 12 -> {"Bounding box exceeds bottom edge: y_max="}

(* A syntactically valid line, as the format defines it: five tokens, an   *)
(* integer class id >= 0, four finite coordinates, positive width and      *)
(* height, the center and the four edges in [0, 1], bounds included.       *)
ValidTokens(p) ==
    /\ Len(p) = 5
    /\ ParseInt(p[1]).ok /\ ParseInt(p[1]).value >= 0
    /\ \A i \in 2..5 : IsNum(p[i])
    /\ NumOf(p[4]) > 0 /\ NumOf(p[5]) > 0
    /\ 0 <= NumOf(p[2]) /\ NumOf(p[2]) <= UNIT
    /\ 0 <= NumOf(p[3]) /\ NumOf(p[3]) <= UNIT
    /\ 0 <= 2 * NumOf(p[2]) - NumOf(p[4]) /\ 2 * NumOf(p[2]) + NumOf(p[4]) <= 2 * UNIT
    /\ 0 <= 2 * NumOf(p[3]) - NumOf(p[5]) /\ 2 * NumOf(p[3]) + NumOf(p[5]) <= 2 * UNIT

-----------------------------------------------------------------------------
(* C1: a line of five tokens with an integer class id >= 0, four finite     *)
(* coordinates, width > 0, height > 0, the center in [0, 1] and the four    *)
(* derived edges in [0, 1] (bounds included) gets no finding, whatever the  *)
(* line number and the file name.                                           *)
C1_ValidLineNoFinding ==
    (Called /\ ValidTokens(TokensOfLine(line))) => Result = <<>>

(* A valid line whose box touches both the left and the right border was   *)
(* validated, at the largest line number.                                  *)
C1_Witness ==
    /\ Called
    /\ line_num = MaxLineNum
    /\ ValidTokens(TokensOfLine(line))
    /\ LET p == TokensOfLine(line)
       IN  /\ 2 * NumOf(p[2]) - NumOf(p[4]) = 0
           /\ 2 * NumOf(p[2]) + NumOf(p[4]) = 2 * UNIT
    /\ Result = <<>>

(* C2: a non-blank line that violates at least one rule gets exactly one    *)
(* finding, and its reason is that of the first violated rule in the order  *)
(* token count, class id, unparsable coordinate, NaN/Infinity (center_x,    *)
(* center_y, width, height), width, height, center_x, center_y, x_min,      *)
(* x_max, y_min, y_max; the rules after it do not matter.                   *)
C2_FirstViolationReported ==
    LET p == TokensOfLine(line)
        first == FirstViolated(p)
    IN  (Called /\ Strip(line) # <<>> /\ first \in Rules) =>
            /\ Len(Result) = 1
            /\ Result[1].reason.msg \in RuleMessages(first)
            /\ first = 4 =>
                  LET i == CHOOSE k \in 2..5 :
                              IsSpecial(p[k]) /\ \A j \in 2..(k - 1) : ~IsSpecial(p[j])
                  IN  /\ Result[1].reason.field = COORD_NAMES[i - 1]
                      /\ Result[1].reason.msg =
                            IF ParseFloat(p[i]).kind = "nan" THEN " is NaN"
                            ELSE " is Infinity"

(* A line that violates the width rule and, after it, the center_x rule and *)
(* an edge rule was validated and got the width finding.                   *)
C2_Witness ==
    LET p == TokensOfLine(line)
    IN  /\ Called
        /\ RuleViolated(5, p) /\ RuleViolated(7, p) /\ RuleViolated(12, p)
        /\ FirstViolated(p) = 5
        /\ Len(Result) = 1
        /\ Result[1].reason.msg = "width must be > 0, found: "

C3_LINE == MakeLine([lead |-> <<>>, sep |-> <<" ">>, trail |-> <<>>],
                    <<T_0, T_05, T_05, T_12, T_02>>)

(* C3 as stated: the line "0 0.5 0.5 1.2 0.2" gets the finding of the right *)
(* edge, x_max = 1.1.                                                       *)
C3_RightEdgeReported ==
    (Called /\ line = C3_LINE) =>
        /\ Len(Result) = 1
        /\ Result[1].reason.msg = "Bounding box exceeds right edge: x_max="
        /\ Result[1].reason.found = <<"1", ".", "1", "0", "0", "0", "0", "0", "0">>

(* C3, amended: the line "0 0.5 0.5 1.2 0.2" gets the finding of the left   *)
(* edge, x_min = 0.5 - 0.6 = -0.1, which is tested before x_max.            *)
C3_LeftEdgeReported ==
    (Called /\ line = C3_LINE) =>
        /\ Len(Result) = 1
        /\ Result[1].reason.msg = "Bounding box exceeds left edge: x_min="
        /\ Result[1].reason.found = <<"-", "0", ".", "1", "0", "0", "0", "0", "0">>
        /\ Result[1].line_content = C3_LINE

(* The line "0 0.5 0.5 1.2 0.2" was validated and got a finding. *)
C3_Witness ==
    /\ Called
    /\ line = C3_LINE
    /\ Len(Result) = 1

-----------------------------------------------------------------------------------------------------------------------------------------------------
(* Files and datasets, as the claims speak of them                         *)

NonBlank(ln) == \E i \in 1..Len(ln) : ln[i] \notin Whitespace

(* A non-blank line that violates at least one rule of the format. *)
InvalidLine(ln) == NonBlank(ln) /\ SomeRuleViolated(TokensOfLine(ln))

(* What a text holds: its lines, the positions of the invalid ones and the *)
(* number of non-blank ones.                                               *)
FactsOfText(content) ==
    LET lines == ReadLines(content)
    IN  [lines    |-> lines,
         invalid  |-> {i \in 1..Len(lines) : InvalidLine(lines[i])},
         nonblank |-> Cardinality({i \in 1..Len(lines) : NonBlank(lines[i])})]

(* The texts the files of a dataset can hold, with their facts worked out  *)
(* once.                                                                   *)
DatasetTexts ==
    UNION { {Concat(q) : q \in [1..n -> LineKinds]} : n \in 0..MaxLines }

DatasetFacts == [c \in DatasetTexts |-> FactsOfText(c)]

Facts(file) ==
    IF file.content \in DatasetTexts THEN DatasetFacts[file.content]
    ELSE FactsOfText(file.content)

(* The findings a file is to produce: one for a file that cannot be read,  *)
(* else one per invalid line.                                              *)
ExpectedCount(file) ==
    IF file.status # "ok" THEN 1 ELSE Cardinality(Facts(file).invalid)

(* t is ln without its leading and trailing whitespace, and is not empty. *)
IsTrimOf(t, ln) ==
    /\ t # <<>>
    /\ t[1] \notin Whitespace
    /\ t[Len(t)] \notin Whitespace
    /\ \E a \in 0..(Len(ln) - Len(t)) :
          /\ SubSeq(ln, a + 1, a + Len(t)) = t
          /\ \A i \in 1..a : ln[i] \in Whitespace
          /\ \A i \in (a + Len(t) + 1)..Len(ln) : ln[i] \in Whitespace

(* a comes before b in lexicographic order. *)
Before(a, b) ==
    \E k \in 0..Len(a) :
       /\ k <= Len(b)
       /\ \A i \in 1..k : a[i] = b[i]
       /\ \/ k = Len(a) /\ k < Len(b)
          \/ k < Len(a) /\ k < Len(b) /\ Ord(a[k + 1]) < Ord(b[k + 1])

Ordered(S) ==
    [i \in 1..Cardinality(S) |->
        CHOOSE x \in S : Cardinality({y \in S : Before(y, x)}) = i - 1]

(* The label files of partition s: none when the directory is absent. *)
TxtFilesOf(s) ==
    IF fs.dirs[s].exists
    THEN {x \in fs.dirs[s].entries : MatchesTxt(x.name)}
    ELSE {}

(* File discovery order within partition s: by name. *)
DiscoveryOf(s) ==
    LET files == TxtFilesOf(s)
        names == Ordered({e.name : e \in files})
    IN  [i \in 1..Len(names) |-> CHOOSE e \in files : e.name = names[i]]

(* File discovery order: train before val. *)
Discovery == IF fs.root THEN DiscoveryOf(1) \o DiscoveryOf(2) ELSE <<>>

(* The files of partition s the run has validated so far, in order. *)
VisitedOf(s) ==
    IF s < split THEN DiscoveryOf(s)
    ELSE IF s = split /\ pc = "files" THEN SubSeq(DiscoveryOf(s), 1, file_idx - 1)
    ELSE <<>>

(* The files the run has validated so far, in order. *)
Visited == IF pc = "start" \/ ~fs.root THEN <<>> ELSE VisitedOf(1) \o VisitedOf(2)

RECURSIVE ExpectedTotal(_)
ExpectedTotal(files) ==
    IF files = <<>> THEN 0 ELSE ExpectedCount(Head(files)) + ExpectedTotal(Tail(files))

RECURSIVE ReadableLineTotal(_)
ReadableLineTotal(files) ==
    IF files = <<>> THEN 0
    ELSE (IF Head(files).status = "ok" THEN Facts(Head(files)).nonblank ELSE 0)
         + ReadableLineTotal(Tail(files))

RECURSIVE WithFilename(_, _)
WithFilename(errs, name) ==
    IF errs = <<>> THEN <<>>
    ELSE (IF Head(errs).filename = name THEN <<Head(errs)>> ELSE <<>>)
         \o WithFilename(Tail(errs), name)

Increasing(errs) ==
    \A k \in 1..(Len(errs) - 1) : errs[k].line_num < errs[k + 1].line_num

FileLevel(e) == e.line_num = 0 /\ e.line_content = <<>>

(* e is a well-formed finding of file. *)
ShapedFor(e, file) ==
    /\ e.filename = file.name
    /\ IF e.line_num = 0
       THEN e.line_content = <<>> /\ file.status # "ok"
       ELSE LET lines == Facts(file).lines
            IN  /\ file.status = "ok"
                /\ e.line_num >= 1
                /\ e.line_num <= Len(lines)
                /\ e.line_content # <<>>
                /\ IsTrimOf(e.line_content, lines[e.line_num])

(* errs is the finding list of file: one file-level finding when it cannot *)
(* be read, else one well-formed finding per invalid line, by line number. *)
FindingsFit(errs, file) ==
    /\ Len(errs) = ExpectedCount(file)
    /\ \A k \in 1..Len(errs) : ShapedFor(errs[k], file)
    /\ Increasing(errs)
    /\ file.status = "ok" =>
          {errs[k].line_num : k \in 1..Len(errs)} = Facts(file).invalid

(* errs is the finding lists of files, one after the other. *)
RECURSIVE Concatenated(_, _)
Concatenated(errs, files) ==
    IF files = <<>> THEN errs = <<>>
    ELSE LET n == ExpectedCount(Head(files))
         IN  /\ Len(errs) >= n
             /\ FindingsFit(SubSeq(errs, 1, n), Head(files))
             /\ Concatenated(SubSeq(errs, n + 1, Len(errs)), Tail(files))

MissingBefore(k) ==
    LET missing == {s \in 1..Len(SPLITS) : s < k /\ ~fs.dirs[s].exists}
    IN  IF missing = {} THEN <<>>
        ELSE IF missing = {1, 2} THEN <<SPLITS[1], SPLITS[2]>>
        ELSE <<SPLITS[CHOOSE s \in missing : TRUE]>>

-----------------------------------------------------------------------------
FileCalled == file_errors # <<>>

FileResult == file_errors[1]

THREE_LINES == BLANK_LINE \o VALID_LINE \o INVALID_LINE

(* C4: for a file that is read, validate_label_file returns one finding     *)
(* per invalid non-blank line and none for valid or blank lines, each with  *)
(* the line's 1-based position in the file, in strictly increasing order;   *)
(* a blank, a valid and an invalid line give one finding at line 3, and an  *)
(* empty file gives none.                                                   *)
C4_OneFindingPerInvalidLine ==
    (FileCalled /\ filepath.status = "ok") =>
        /\ Len(FileResult) = Cardinality(FactsOfText(filepath.content).invalid)
        /\ {FileResult[k].line_num : k \in 1..Len(FileResult)}
              = FactsOfText(filepath.content).invalid
        /\ Increasing(FileResult)
        /\ \A k \in 1..Len(FileResult) : FileResult[k].filename = filepath.name
        /\ filepath.content = THREE_LINES =>
              Len(FileResult) = 1 /\ FileResult[1].line_num = 3
        /\ filepath.content = <<>> => FileResult = <<>>

(* The file of a blank, a valid and an invalid line was validated and gave  *)
(* its one finding at line 3.                                              *)
C4_Witness ==
    /\ FileCalled
    /\ filepath.status = "ok"
    /\ filepath.content = THREE_LINES
    /\ Len(FileResult) = 1
    /\ FileResult[1].line_num = 3

-----------------------------------------------------------------------------
(* C5: a file that cannot be read gives exactly one finding, with line      *)
(* number 0 and empty text, and no line finding; the scan goes on to every  *)
(* later file of the same and of the next partition.                        *)
C5_FileFailureDoesNotStopScan ==
    LET done == Visited
    IN  /\ (done # <<>> /\ done[Len(done)].status # "ok") =>
              /\ Len(errors) = 1
              /\ FileLevel(errors[1])
              /\ errors[1].filename = done[Len(done)].name
        /\ total_files = Len(done)
        /\ Len(all_errors) = ExpectedTotal(done)
        /\ pc = "exited" => total_files = Len(Discovery)

(* The run ended after an undecodable file, whose readable part holds an    *)
(* invalid line, and a later file of the same partition with a finding.     *)
C5_Witness ==
    /\ pc = "exited"
    /\ TxtFilesOf(2) = {}
    /\ Len(Discovery) = 2
    /\ Discovery[1].status = "undecodable"
    /\ Discovery[1].content = INVALID_LINE
    /\ Discovery[2].status = "ok"
    /\ Len(all_errors) = 2
    /\ all_errors[1].line_num = 0
    /\ all_errors[2].line_num = 1

(* C6: the exit code is 0 exactly when the root exists and the scan gave no *)
(* finding, and 1 when the root is missing or a finding was recorded; with  *)
(* the root missing nothing is enumerated or validated.                     *)
C6_ExitCode ==
    /\ pc # "exited" => exit_code = -1
    /\ pc = "exited" =>
          /\ exit_code \in {0, 1}
          /\ exit_code = 0 <=> (fs.root /\ all_errors = <<>>)
          /\ fs.root => Len(all_errors) = ExpectedTotal(Discovery)
          /\ ~fs.root =>
                /\ split = 0 /\ txt_files = <<>> /\ warnings = <<>>
                /\ total_files = 0 /\ total_lines = 0 /\ all_errors = <<>>

(* A run over two clean label files ended with exit code 0. *)
C6_Witness ==
    /\ pc = "exited"
    /\ exit_code = 0
    /\ total_files = 2
    /\ total_lines = 2

-----------------------------------------------------------------------------
(* The findings a state holds: all_errors, errors and the report's groups. *)
FindingsHeld ==
    {all_errors[k] : k \in 1..Len(all_errors)}
    \cup {errors[k] : k \in 1..Len(errors)}
    \cup UNION { {errors_by_file[g].file_errors[k] :
                     k \in 1..Len(errors_by_file[g].file_errors)}
                 : g \in 1..Len(errors_by_file) }

(* C7: every finding of a scan has either line number 0 and empty text, or  *)
(* a line number >= 1 and, as text, the non-empty original line without its *)
(* leading and trailing whitespace; none is made for a blank line.          *)
C7_FindingShape ==
    LET done == Visited
    IN  /\ \A e \in FindingsHeld : \E k \in 1..Len(done) : ShapedFor(e, done[k])
        /\ \A k \in 1..Len(errors) : ShapedFor(errors[k], done[Len(done)])

(* The report holds a file-level finding and the finding of a line whose    *)
(* text differs from the line as it stands in the file.                     *)
C7_Witness ==
    /\ pc = "exited"
    /\ \E e \in FindingsHeld : e.line_num = 0
    /\ \E e \in FindingsHeld, k \in 1..Len(Discovery) :
          /\ e.line_num >= 1
          /\ ShapedFor(e, Discovery[k])
          /\ Facts(Discovery[k]).lines[e.line_num] # e.line_content
    /\ errors_by_file # <<>>

(* C8: total_lines is the sum of the non-blank lines of the enumerated      *)
(* files that were read; a file with a file-level finding adds 0; and       *)
(* total_files counts every enumerated file.                                *)
C8_LineCount ==
    LET done == Visited
    IN  /\ total_files = Len(done)
        /\ total_lines = ReadableLineTotal(done)

(* The run ended after an undecodable file whose readable part is one      *)
(* non-blank line, and a readable file of one non-blank line.               *)
C8_Witness ==
    /\ pc = "exited"
    /\ total_files = 2
    /\ \E i \in 1..2 :
          /\ Discovery[i].status = "undecodable"
          /\ Facts(Discovery[i]).nonblank = 1
    /\ \E i \in 1..2 :
          /\ Discovery[i].status = "ok"
          /\ Facts(Discovery[i]).nonblank = 1
    /\ total_lines = 1

(* C9: an absent partition gives a warning only: no finding, no change of   *)
(* the counters, and the other partition is still scanned; with both absent *)
(* under an existing root the run ends with 0 files, 0 lines, 0 findings    *)
(* and success.                                                             *)
C9_MissingPartitionSkipped ==
    fs.root =>
        LET done == Visited
        IN  /\ pc \in {"scan", "files"} => warnings = MissingBefore(split)
            /\ pc = "exited" => warnings = MissingBefore(Len(SPLITS) + 1)
            /\ total_files = Len(done)
            /\ total_lines = ReadableLineTotal(done)
            /\ Len(all_errors) = ExpectedTotal(done)
            /\ pc = "exited" =>
                  total_files = Cardinality(TxtFilesOf(1)) + Cardinality(TxtFilesOf(2))
            /\ (pc = "exited" /\ ~fs.dirs[1].exists /\ ~fs.dirs[2].exists) =>
                  /\ total_files = 0 /\ total_lines = 0 /\ all_errors = <<>>
                  /\ exit_code = 0

(* The run ended with train absent and val scanned, findings included. *)
C9_Witness ==
    /\ pc = "exited"
    /\ fs.root
    /\ ~fs.dirs[1].exists
    /\ warnings = <<"train">>
    /\ total_files = 1
    /\ total_lines = 2
    /\ all_errors # <<>>

(* C10: all_errors is the concatenation of the per-file finding lists in    *)
(* discovery order, each ordered by line number, never interleaved; the     *)
(* report's groups, by file name, keep the findings in that order.          *)
C10_FindingOrder ==
    /\ Concatenated(all_errors, Visited)
    /\ Increasing(errors)
    /\ (pc = "exited" /\ all_errors = <<>>) => errors_by_file = <<>>
    /\ (pc = "exited" /\ all_errors # <<>>) =>
          /\ {errors_by_file[g].filename : g \in 1..Len(errors_by_file)}
                = {all_errors[k].filename : k \in 1..Len(all_errors)}
          /\ \A g \in 1..(Len(errors_by_file) - 1) :
                Before(errors_by_file[g].filename, errors_by_file[g + 1].filename)
          /\ \A g \in 1..Len(errors_by_file) :
                errors_by_file[g].file_errors
                   = WithFilename(all_errors, errors_by_file[g].filename)

(* The run ended with findings of a.txt of train and of a.txt of val, which *)
(* the report puts in one group, train's first.                             *)
C10_Witness ==
    /\ pc = "exited"
    /\ Len(Discovery) = 2
    /\ Discovery[1].name = A_TXT /\ Discovery[2].name = A_TXT
    /\ Len(all_errors) = 2
    /\ all_errors[1].line_num = 0
    /\ all_errors[2].line_num = 2
    /\ Len(errors_by_file) = 1
    /\ errors_by_file[1].file_errors = all_errors

====
